---- MODULE Spec2Model ----
(***************************************************************************)
(* Model of production_calendar.py: class ProcessCalendar (a per-instance  *)
(* dict `_dict`, a JSON cache file shared by all instances, and the two     *)
(* public operations date_info and pre_cache_json) and class DateInfo.      *)
(*                                                                         *)
(* The network and the markup are the environment: every urlopen outcome   *)
(* is an input drawn from a finite set of responses.  A response body is   *)
(* a sequence of <table class="cal"> blocks, each a sequence of <td> cells *)
(* given by their class attribute and their day number.                    *)
(***************************************************************************)
EXTENDS Integers, Sequences, FiniteSets, TLC

VARIABLES
    dict,   \* dict[i]: the _dict attribute of instance i (year -> month -> record)
    file,   \* the cache file production_calendar_cache.json
    last,   \* the most recent call: who, what, its arguments, its I/O, its outcome
    probe,  \* one remembered earlier date_info call of an instance (history)
    pending \* pending[i]: the call instance i is in the middle of, if any

vars == <<dict, file, last, probe, pending>>

----------------------------------------------------------------------------
(* Bounds of the model *)

\* longest argument list of pre_cache_json
MaxYears == 2
\* largest day of month that is queried or occurs in a cell
MaxDay == 2
\* longest table (number of cells) of the exhaustive table set
MaxCells == 3
\* the calls one process makes while the calls of the processes overlap
MaxCalls == 2

Instances == {"p", "q"}
Years == {2023, 2024}
Days == 1..MaxDay

----------------------------------------------------------------------------
(* Python dict helpers *)

EmptyDict == << >>

Put(d, k, v) == [x \in (DOMAIN d) \cup {k} |-> IF x = k THEN v ELSE d[x]]

Range(s) == {s[k] : k \in DOMAIN s}

SeqsUpTo(S, n) == UNION {[1..k -> S] : k \in 0..n}

----------------------------------------------------------------------------
(* int <-> str, as json.dump writes int keys and int() reads them back.     *)
(* A str is a sequence of one-character strings.                            *)

DigitChars == <<"0", "1", "2", "3", "4", "5", "6", "7", "8", "9">>

DigitOf(c) == (CHOOSE k \in 1..10 : DigitChars[k] = c) - 1

RECURSIVE IntToStr(_)
IntToStr(n) ==
    IF n < 10 THEN <<DigitChars[n + 1]>>
    ELSE IntToStr(n \div 10) \o <<DigitChars[(n % 10) + 1]>>

RECURSIVE StrToInt(_)
StrToInt(s) ==
    IF Len(s) = 1 THEN DigitOf(s[1])
    ELSE 10 * StrToInt(SubSeq(s, 1, Len(s) - 1)) + DigitOf(s[Len(s)])

\* str(k) and int(k) on the keys that occur, tabulated once from the two
\* conversions above
KeyInts == (0..12) \cup Years

StrTable == [n \in KeyInts |-> IntToStr(n)]

IntTable == [s \in {IntToStr(n) : n \in KeyInts} |-> StrToInt(s)]

str(n) == StrTable[n]

int(s) == IntTable[s]

----------------------------------------------------------------------------
(* The table extractor: the three regular expressions of __init__ applied  *)
(* to one table by findall, then tuple(map(int, ...)).                      *)

CellClasses == {"preholiday", "weekend", "holiday", "holiday weekend", "work"}

Cells == [cls : CellClasses, day : Days]

\* <td class="preholiday">(\d+)<
pre_holiday_pattern(cell) == cell.cls = "preholiday"

\* <td class="weekend">(.*?)</td>
weekend_pattern(cell) == cell.cls = "weekend"

\* <td class="holiday.*?">(.*?)</td> : any class attribute that starts with holiday
holiday_pattern(cell) == cell.cls \in {"holiday", "holiday weekend"}

DaysOf(cells) == [k \in 1..Len(cells) |-> cells[k].day]

MonthData(table) ==
    [pre_holidays |-> DaysOf(SelectSeq(table, pre_holiday_pattern)),
     weekends     |-> DaysOf(SelectSeq(table, weekend_pattern)),
     holidays     |-> DaysOf(SelectSeq(table, holiday_pattern))]

----------------------------------------------------------------------------
(* __get_html: the outcome of urlopen, and of reading and decoding the     *)
(* response, is the environment's choice.  The outcome of __get_html is a  *)
(* record: exc is "" when it returns, and else the exception that line 73, *)
(* which is outside the try, lets through.                                  *)

None == [none |-> TRUE, blank |-> TRUE, tables |-> << >>, exc |-> ""]

Body(tables) == [none |-> FALSE, blank |-> FALSE, tables |-> tables, exc |-> ""]

\* a response whose body is the empty string
BlankBody == [none |-> FALSE, blank |-> TRUE, tables |-> << >>, exc |-> ""]

\* response.read().decode('utf-8') raises exc
Unread(exc) == [none |-> FALSE, blank |-> TRUE, tables |-> << >>, exc |-> exc]

\* urlopen raises: caught at line 69
NetError == [err |-> TRUE, body |-> BlankBody]

NetOk(body) == [err |-> FALSE, body |-> body]

\* urlopen returns a response whose read() raises, or whose bytes are not
\* UTF-8
ReadErrors == {"ConnectionResetError", "IncompleteRead", "UnicodeDecodeError"}
NetBroken(exc) == [err |-> FALSE, body |-> Unread(exc)]

get_html(net) == IF net.err THEN None ELSE net.body

\* `if html:` is false for None and for the empty string
Truthy(html) == ~html.none /\ ~html.blank

\* __get_year_data rebuilding self._dict with the fetched year alone
get_year_data_reset(d, year, net) ==
    LET html == get_html(net)
    IN  IF Truthy(html)
        THEN Put(EmptyDict, year,
                 [m \in 1..Len(html.tables) |-> MonthData(html.tables[m])])
        ELSE Put(EmptyDict, year, EmptyDict)

\* __get_year_data numbering the months from zero, as enumerate does
get_year_data_zero(d, year, net) ==
    LET html == get_html(net)
    IN  IF Truthy(html)
        THEN Put(d, year,
                 [m \in 0..(Len(html.tables) - 1) |-> MonthData(html.tables[m + 1])])
        ELSE Put(d, year, EmptyDict)

(* __get_year_data: the year's entry is reset to {} first, then one month   *)
(* per table found, numbered by position.  This is the _dict it leaves,    *)
(* also when __get_html raises (line 82 has run).                          *)
get_year_data(d, year, net) ==
    LET html == get_html(net)
    IN  IF Truthy(html)
        THEN Put(d, year, [m \in 1..Len(html.tables) |-> MonthData(html.tables[m])])
        ELSE Put(d, year, EmptyDict)

----------------------------------------------------------------------------
(* The cache file.  Its text is absent, or is the json.dump text of obj   *)
(* (when head is set) followed by the bytes rest, each a one-character     *)
(* string.  json.load accepts a text that is the text of one object and,   *)
(* after it, white space only (valid).                                     *)

\* the byte a truncate beyond the end of the file fills with
ZeroByte == "NUL"

\* the characters json.load skips after the object
Blank(bytes) == \A k \in 1..Len(bytes) : bytes[k] \in {" ", "\t", "\n", "\r"}

NoFile ==
    [exists |-> FALSE, valid |-> FALSE, empty |-> FALSE,
     head |-> FALSE, obj |-> EmptyDict, rest |-> << >>]

JsonFile(obj) ==
    [exists |-> TRUE, valid |-> TRUE, empty |-> FALSE,
     head |-> TRUE, obj |-> obj, rest |-> << >>]

\* a file of zero bytes: os.path.exists is true and json.load raises
EmptyFile ==
    [exists |-> TRUE, valid |-> FALSE, empty |-> TRUE,
     head |-> FALSE, obj |-> EmptyDict, rest |-> << >>]

\* bytes that do not begin with the text of an object: a cut-off text, or
\* zero bytes
Junk(bytes) ==
    [exists |-> TRUE, valid |-> FALSE, empty |-> bytes = << >>,
     head |-> FALSE, obj |-> EmptyDict, rest |-> bytes]

\* the text of obj followed by more bytes
Extra(obj, bytes) ==
    [exists |-> TRUE, valid |-> Blank(bytes), empty |-> FALSE,
     head |-> TRUE, obj |-> obj, rest |-> bytes]

\* a file whose text is not JSON: json.load raises
MalformedFile == Junk(<<"{">>)

\* json.dump of one year's dict: the int month keys become str keys
DumpYear(yd) ==
    [ks \in {str(m) : m \in DOMAIN yd} |-> yd[int(ks)]]

\* json.dump(self._dict, f): the int year keys become str keys
Dump(d) ==
    [ks \in {str(y) : y \in DOMAIN d} |-> DumpYear(d[int(ks)])]

\* {int(k): v for k, v in data[str(year)].items()}
LoadYear(jy) ==
    [m \in {int(ks) : ks \in DOMAIN jy} |-> jy[str(m)]]

\* the merge replaced by a dump of the instance's dict alone
Merge_overwrite(obj, d) ==
    [ks \in {str(y) : y \in DOMAIN d} |-> DumpYear(d[int(ks)])]

\* the merge with the file's entries kept where both have the year
Merge_keep(obj, d) ==
    [ks \in (DOMAIN obj) \cup {str(y) : y \in DOMAIN d} |->
        IF ks \in DOMAIN obj THEN obj[ks] ELSE DumpYear(d[int(ks)])]

\* cache = {int(k): v ...}; cache.update(self._dict); json.dump(cache, f)
Merge(obj, d) ==
    [ks \in (DOMAIN obj) \cup {str(y) : y \in DOMAIN d} |->
        IF int(ks) \in DOMAIN d THEN DumpYear(d[int(ks)]) ELSE obj[ks]]

(* __write_cache_json *)
write_cache_json(d, f) ==
    IF ~f.exists
    THEN [raised |-> FALSE, file |-> JsonFile(Dump(d)), io |-> <<"exists", "dump">>]
    ELSE IF ~f.valid
    THEN [raised |-> TRUE, file |-> f, io |-> <<"exists", "load">>]
    ELSE [raised |-> FALSE, file |-> JsonFile(Merge(f.obj, d)),
          io |-> <<"exists", "load", "dump">>]

\* `not data.get(str(year))`: the key is missing, or its value is the empty object
Falsy(obj, ks) == ks \notin DOMAIN obj \/ obj[ks] = EmptyDict

(* __read_cache_json *)
read_cache_json(d, f, year) ==
    IF ~f.exists
    THEN [raised |-> FALSE, hit |-> FALSE, dict |-> d, io |-> <<"exists">>]
    ELSE IF ~f.valid
    THEN [raised |-> TRUE, hit |-> FALSE, dict |-> d, io |-> <<"exists", "load">>]
    ELSE IF Falsy(f.obj, str(year))
    THEN [raised |-> FALSE, hit |-> FALSE, dict |-> d, io |-> <<"exists", "load">>]
    ELSE [raised |-> FALSE, hit |-> TRUE,
          dict |-> Put(d, year, LoadYear(f.obj[str(year)])),
          io |-> <<"exists", "load">>]

----------------------------------------------------------------------------
(* DateInfo and the outcome of a call *)

DateInfo(work, short, holiday, weekend) ==
    [kind |-> "DateInfo", is_work |-> work, is_short |-> short,
     is_holiday |-> holiday, is_weekend |-> weekend]

Raise(exc) ==
    [kind |-> exc, is_work |-> FALSE, is_short |-> FALSE,
     is_holiday |-> FALSE, is_weekend |-> FALSE]

ReturnNone == Raise("None")

\* `day in tuple`
In(day, days) == \E k \in 1..Len(days) : days[k] = day

\* date_flags with the holidays tested before the pre-holidays
date_flags_holiday_first(yd, dt) ==
    IF dt.month \notin DOMAIN yd THEN Raise("KeyError")
    ELSE IF In(dt.day, yd[dt.month].holidays) THEN DateInfo(FALSE, FALSE, TRUE, TRUE)
    ELSE IF In(dt.day, yd[dt.month].pre_holidays) THEN DateInfo(TRUE, TRUE, FALSE, FALSE)
    ELSE IF In(dt.day, yd[dt.month].weekends) THEN DateInfo(FALSE, FALSE, FALSE, TRUE)
    ELSE DateInfo(TRUE, FALSE, FALSE, FALSE)

\* date_flags with the holiday branch setting is_holiday alone
date_flags_holiday_only(yd, dt) ==
    IF dt.month \notin DOMAIN yd THEN Raise("KeyError")
    ELSE IF In(dt.day, yd[dt.month].pre_holidays) THEN DateInfo(TRUE, TRUE, FALSE, FALSE)
    ELSE IF In(dt.day, yd[dt.month].holidays) THEN DateInfo(FALSE, FALSE, TRUE, FALSE)
    ELSE IF In(dt.day, yd[dt.month].weekends) THEN DateInfo(FALSE, FALSE, FALSE, TRUE)
    ELSE DateInfo(TRUE, FALSE, FALSE, FALSE)

(* date_info, lines 109-120: the if/elif chain over the month's three       *)
(* tuples; self._dict[dt.year][dt.month] raises KeyError for a missing      *)
(* month.                                                                    *)
date_flags(yd, dt) ==
    IF dt.month \notin DOMAIN yd THEN Raise("KeyError")
    ELSE IF In(dt.day, yd[dt.month].pre_holidays) THEN DateInfo(TRUE, TRUE, FALSE, FALSE)
    ELSE IF In(dt.day, yd[dt.month].holidays) THEN DateInfo(FALSE, FALSE, TRUE, TRUE)
    ELSE IF In(dt.day, yd[dt.month].weekends) THEN DateInfo(FALSE, FALSE, FALSE, TRUE)
    ELSE DateInfo(TRUE, FALSE, FALSE, FALSE)

Fetched(year, net) ==
    [year |-> year, none |-> get_html(net).none, tables |-> get_html(net).tables,
     exc |-> get_html(net).exc]

\* the exception of a failed read or write of the file
JsonError(raised) == IF raised THEN "JSONDecodeError" ELSE ""

\* resolve without the test of self._dict: the file is consulted on every call
resolve_reread(d, f, year, net) ==
    LET r == read_cache_json(d, f, year)
    IN  IF r.raised \/ r.hit
        THEN [exc |-> JsonError(r.raised), dict |-> r.dict, file |-> f,
              fetched |-> << >>, io |-> r.io]
        ELSE LET d2 == get_year_data(d, year, net)
                 w  == write_cache_json(d2, f)
             IN  IF get_html(net).exc # ""
                 THEN [exc |-> get_html(net).exc, dict |-> d2, file |-> f,
                       fetched |-> <<Fetched(year, net)>>,
                       io |-> r.io \o <<"urlopen">>]
                 ELSE [exc |-> JsonError(w.raised), dict |-> d2, file |-> w.file,
                       fetched |-> <<Fetched(year, net)>>,
                       io |-> r.io \o <<"urlopen">> \o w.io]

(* date_info, lines 104-107: memory, then the file, then the network; an   *)
(* exception of __get_html or of json.load ends the call where it is       *)
(* raised.                                                                  *)
resolve(d, f, year, net) ==
    IF year \in DOMAIN d
    THEN [exc |-> "", dict |-> d, file |-> f, fetched |-> << >>, io |-> << >>]
    ELSE LET r == read_cache_json(d, f, year)
         IN  IF r.raised \/ r.hit
             THEN [exc |-> JsonError(r.raised), dict |-> r.dict, file |-> f,
                   fetched |-> << >>, io |-> r.io]
             ELSE LET d2 == get_year_data(d, year, net)
                      w  == write_cache_json(d2, f)
                  IN  IF get_html(net).exc # ""
                      THEN [exc |-> get_html(net).exc, dict |-> d2, file |-> f,
                            fetched |-> <<Fetched(year, net)>>,
                            io |-> r.io \o <<"urlopen">>]
                      ELSE [exc |-> JsonError(w.raised), dict |-> d2,
                            file |-> w.file,
                            fetched |-> <<Fetched(year, net)>>,
                            io |-> r.io \o <<"urlopen">> \o w.io]

(* date_info *)
date_info(d, f, dt, net) ==
    LET r == resolve(d, f, dt.year, net)
    IN  [dict |-> r.dict, file |-> r.file, fetched |-> r.fetched, io |-> r.io,
         res |-> IF r.exc # "" THEN Raise(r.exc)
                 ELSE date_flags(r.dict[dt.year], dt)]

\* the last fetch made let an exception through
Broke(acc) ==
    Len(acc.fetched) > 0 /\ acc.fetched[Len(acc.fetched)].exc # ""

\* the loop of pre_cache_json: __get_year_data for each listed year, in order,
\* until one lets an exception through; acc is the dict so far with the
\* fetches made so far
RECURSIVE fetch_all(_, _, _)
fetch_all(acc, years, nets) ==
    IF years = << >> \/ Broke(acc) THEN acc
    ELSE fetch_all(
            [dict    |-> get_year_data(acc.dict, Head(years), Head(nets)),
             fetched |-> Append(acc.fetched, Fetched(Head(years), Head(nets)))],
            Tail(years), Tail(nets))

(* pre_cache_json: the write is not reached when a fetch lets an exception *)
(* through                                                                 *)
pre_cache_json(d, f, years, nets) ==
    LET a == fetch_all([dict |-> d, fetched |-> << >>], years, nets)
        w == write_cache_json(a.dict, f)
    IN  IF Broke(a)
        THEN [dict |-> a.dict, file |-> f, fetched |-> a.fetched,
              io |-> [k \in 1..Len(a.fetched) |-> "urlopen"],
              res |-> Raise(a.fetched[Len(a.fetched)].exc)]
        ELSE [dict |-> a.dict, file |-> w.file, fetched |-> a.fetched,
              io |-> [k \in 1..Len(a.fetched) |-> "urlopen"] \o w.io,
              res |-> IF w.raised THEN Raise("JSONDecodeError") ELSE ReturnNone]

----------------------------------------------------------------------------
(* The environment: the pages the calendar site may serve *)

Cell(c, n) == [cls |-> c, day |-> n]

\* a January in the shape of the site's page: day 1 a holiday that is also
\* listed as a weekend, day 2 a pre-holiday also listed as a weekend, day 3 a
\* plain weekend, day 4 an ordinary day
January ==
    <<Cell("holiday weekend", 1), Cell("weekend", 1), Cell("preholiday", 2),
      Cell("weekend", 2), Cell("weekend", 3), Cell("work", 4)>>

TableOf(m) ==
    IF m = 1 THEN January
    ELSE <<Cell("weekend", 1 + (m % 2)), Cell("work", 2 - (m % 2))>>

Months == 1..12

\* a well-formed page: twelve tables
FullPage == [m \in Months |-> TableOf(m)]

\* a page on which a single table is recognised
ShortPage == <<TableOf(1)>>

Nets ==
    {NetError, NetBroken("ConnectionResetError"),
     NetOk(Body(ShortPage)), NetOk(Body(FullPage))}

Date(y, m, d) == [year |-> y, month |-> m, day |-> d]

Dates == {Date(y, m, 1) : y \in Years, m \in {1, 12}}

\* every table of at most MaxCells cells
Tables == SeqsUpTo(Cells, MaxCells)

TableNets ==
    {NetError, NetOk(BlankBody)} \cup {NetBroken(e) : e \in ReadErrors}
        \cup {NetOk(Body(<<t>>)) : t \in Tables}

TableDates == {Date(2023, m, d) : m \in {1, 2}, d \in 1..(MaxDay + 1)}

----------------------------------------------------------------------------
(* State *)

NoDate == Date(0, 0, 0)

\* the fetch got no document: urlopen raised, or the read of the response did
FetchFailed(fe) == fe.none \/ fe.exc # ""

\* the call's last fetch for year y failed
LastFetchFailed(c, y) ==
    \E k \in 1..Len(c.fetched) :
        /\ c.fetched[k].year = y /\ FetchFailed(c.fetched[k])
        /\ \A j \in (k + 1)..Len(c.fetched) : c.fetched[j].year # y

\* the record of a call; inmem and stored say whether, when the call was
\* made, the years it names were keys of the instance's _dict and of the
\* file; lapsed are the years whose last fetch in the call failed while the
\* _dict or the file held months for them; replaced are the years the call
\* did not fetch whose entry in the file it changed
Call(i, op, dt, years, r, after) ==
    LET named == IF op = "date_info" THEN {dt.year} ELSE Range(years)
        json  == file.exists /\ file.valid
        got   == {r.fetched[k].year : k \in 1..Len(r.fetched)}
    IN  [inst |-> i, op |-> op, dt |-> dt, years |-> years,
         fetched |-> r.fetched, io |-> r.io, res |-> r.res, after |-> after,
         inmem  |-> named \subseteq DOMAIN dict[i],
         stored |-> /\ json
                    /\ \A y \in named : IntToStr(y) \in DOMAIN file.obj,
         lapsed |->
             {y \in got :
                 /\ LastFetchFailed(r, y)
                 /\ \/ y \in DOMAIN dict[i] /\ dict[i][y] # EmptyDict
                    \/ /\ json
                       /\ IntToStr(y) \in DOMAIN file.obj
                       /\ file.obj[IntToStr(y)] # EmptyDict},
         replaced |->
             IF json /\ op \in {"date_info", "pre_cache_json"}
             THEN {y \in Years \ got :
                      /\ IntToStr(y) \in DOMAIN file.obj
                      /\ IntToStr(y) \in DOMAIN r.file.obj
                      /\ r.file.obj[IntToStr(y)] # file.obj[IntToStr(y)]}
             ELSE {}]

\* no call in progress
NoCall ==
    [op |-> "none", dt |-> NoDate, years |-> << >>, todo |-> << >>,
     fetched |-> << >>, io |-> << >>,
     inmem |-> FALSE, stored |-> FALSE, held |-> {}]

\* instance i is not inside a call, and has made n calls
Idle(n) ==
    [pc |-> "idle", calls |-> n, call |-> NoCall, got |-> << >>, room |-> 0,
     seen |-> EmptyDict, base |-> NoFile, mixed |-> FALSE]

NoProbe ==
    [on |-> FALSE, inst |-> "p", dt |-> NoDate, res |-> ReturnNone,
     fetched |-> << >>, io |-> << >>]

Probe(i, dt, r) ==
    [on |-> TRUE, inst |-> i, dt |-> dt, res |-> r.res,
     fetched |-> r.fetched, io |-> r.io]

Init ==
    /\ dict = [i \in Instances |-> EmptyDict]
    /\ file = NoFile
    /\ last = Call("p", "none", NoDate, << >>,
                   [fetched |-> << >>, io |-> << >>, res |-> ReturnNone], FALSE)
    /\ probe = NoProbe
    /\ pending = [i \in Instances |-> Idle(0)]

\* the call reaches urlopen
NeedsNet(d, f, year) ==
    /\ year \notin DOMAIN d
    /\ ~read_cache_json(d, f, year).raised
    /\ ~read_cache_json(d, f, year).hit

(* ProcessCalendar.date_info(dt) on instance i.  With arm, the call is the  *)
(* one remembered in probe; otherwise it is marked `after` when it follows  *)
(* the remembered call of the same instance.                                *)
DateInfoCall(i, dt, nets, arms) ==
    \E net \in (IF NeedsNet(dict[i], file, dt.year) THEN nets ELSE {NetError}) :
    \E arm \in arms :
        \E r \in {date_info(dict[i], file, dt, net)} :
            /\ dict' = [dict EXCEPT ![i] = r.dict]
            /\ file' = r.file
            /\ last' = Call(i, "date_info", dt, << >>, r,
                            ~arm /\ probe.on /\ probe.inst = i)
            /\ probe' = IF arm THEN Probe(i, dt, r) ELSE probe
            /\ UNCHANGED pending

(* ProcessCalendar.pre_cache_json on instance i, with its argument list *)
PreCacheCall(i, years, nets) ==
    \E ns \in [1..Len(years) -> nets] :
        \E r \in {pre_cache_json(dict[i], file, years, ns)} :
            /\ dict' = [dict EXCEPT ![i] = r.dict]
            /\ file' = r.file
            /\ last' = Call(i, "pre_cache_json", NoDate, years, r, FALSE)
            /\ probe' = IF probe.inst = i THEN NoProbe ELSE probe
            /\ UNCHANGED pending

(* ProcessCalendar.__init__: the process of instance i ends and a new one   *)
(* is constructed, with an empty _dict                                      *)
New(i) ==
    /\ dict' = [dict EXCEPT ![i] = EmptyDict]
    /\ last' = Call(i, "__init__", NoDate, << >>,
                    [fetched |-> << >>, io |-> << >>, res |-> ReturnNone], FALSE)
    /\ probe' = IF probe.inst = i THEN NoProbe ELSE probe
    /\ UNCHANGED <<file, pending>>

\* the argument lists of pre_cache_json: at most n years, none twice
YearLists(n) ==
    {ys \in SeqsUpTo(Years, n) : Cardinality(Range(ys)) = Len(ys)}

(* Calls one after the other; instance p calls pre_cache_json with longer  *)
(* lists than instance q does.                                              *)
Next ==
    \/ \E i \in Instances, dt \in Dates : DateInfoCall(i, dt, Nets, {FALSE})
    \/ \E i \in Instances :
           \E years \in YearLists(IF i = "p" THEN MaxYears ELSE MaxYears - 1) :
               PreCacheCall(i, years, Nets)
    \/ \E i \in Instances : New(i)

Spec == Init /\ [][Next]_vars

(* The calls of instance p between one remembered date_info call and the   *)
(* next pre_cache_json; pre_cache_json is called on instance p alone, with *)
(* shorter argument lists.                                                  *)
NextRepeat ==
    \/ \E i \in Instances, dt \in Dates :
           DateInfoCall(i, dt, Nets, IF i = "p" THEN BOOLEAN ELSE {FALSE})
    \/ \E years \in SeqsUpTo(Years, MaxYears - 1) :
           PreCacheCall("p", years, Nets)
    \/ \E i \in Instances : New(i)

SpecRepeat == Init /\ [][NextRepeat]_vars

(* One instance, one year, every table of at most MaxCells cells *)
NextTables ==
    \/ \E dt \in TableDates : DateInfoCall("p", dt, TableNets, {FALSE})
    \/ New("p")

SpecTables == Init /\ [][NextTables]_vars

(* One instance, one year, pages of zero to twelve tables: the runs of     *)
(* consecutive tables of the full page that start at its first, second or *)
(* third table                                                             *)
Pages == {SubSeq(FullPage, a, b) : a \in 1..3, b \in 0..Len(FullPage)}

PageNets ==
    {NetError} \cup {NetBroken(e) : e \in ReadErrors}
        \cup {NetOk(Body(t)) : t \in Pages}

PageDates == {Date(2023, m, 1) : m \in {1, 12}}

NextPages ==
    \/ \E dt \in PageDates : DateInfoCall("p", dt, PageNets, {FALSE})
    \/ PreCacheCall("p", <<2023>>, PageNets)
    \/ New("p")

SpecPages == Init /\ [][NextPages]_vars

(* The cache file as the first instance finds it: absent, of zero bytes,   *)
(* not JSON, or holding the empty object                                    *)
StartFiles == {NoFile, EmptyFile, MalformedFile, JsonFile(EmptyDict)}

InitStore ==
    /\ dict = [i \in Instances |-> EmptyDict]
    /\ file \in StartFiles
    /\ last = Call("p", "none", NoDate, << >>,
                   [fetched |-> << >>, io |-> << >>, res |-> ReturnNone], FALSE)
    /\ probe = NoProbe
    /\ pending = [i \in Instances |-> Idle(0)]

NextStore ==
    \/ \E i \in Instances, dt \in Dates : DateInfoCall(i, dt, Nets, {FALSE})
    \/ \E i \in Instances, years \in SeqsUpTo(Years, MaxYears - 1) :
           PreCacheCall(i, years, Nets)
    \/ \E i \in Instances : New(i)

SpecStore == InitStore /\ [][NextStore]_vars

(* Calls of several processes overlapping in time.  A call runs in steps,  *)
(* one for each access to the file or to the network and one for the       *)
(* assignment of line 82, in the order of the code; nothing is held        *)
(* between two steps.  pending[i].pc names the step the call of instance i *)
(* makes next, pending[i].call is the call: todo are the years still to    *)
(* fetch, and inmem, stored and held say whether, when the call was made,  *)
(* the years it names were keys of the _dict and of the file, and which of *)
(* them had months in one of the two.  json.load reads the file with       *)
(* f.read(), which is several reads: got are the bytes read so far and     *)
(* room is the size of its buffer.  seen is what line 133 loaded; base is  *)
(* the file as it was before the call's first write and mixed says that    *)
(* another process wrote the file between this call's look at the file     *)
(* (line 127, or the first bytes read at line 133) and the end of its      *)
(* write.                                                                   *)

\* the call has looked at the file and has not finished writing it
Writing == {"write_open", "write_dump", "write_flush", "write_truncate"}

\* ... or has read bytes of it at line 133
Looked(j) ==
    \/ pending[j].pc \in Writing
    \/ pending[j].pc = "write_load" /\ pending[j].got # << >>

\* the calls instance i makes: one instance makes one call fewer
Calls(i) == IF i = "p" THEN MaxCalls ELSE MaxCalls - 1

\* the call record, as the call is made
Made(i, op, dt, years, todo) ==
    LET named == IF op = "date_info" THEN {dt.year} ELSE Range(years)
        json  == file.exists /\ file.valid
    IN  [op |-> op, dt |-> dt, years |-> years, todo |-> todo,
         fetched |-> << >>, io |-> << >>,
         inmem  |-> named \subseteq DOMAIN dict[i],
         stored |-> /\ json
                    /\ \A y \in named : IntToStr(y) \in DOMAIN file.obj,
         held   |-> {y \in named :
                        \/ y \in DOMAIN dict[i] /\ dict[i][y] # EmptyDict
                        \/ /\ json
                           /\ IntToStr(y) \in DOMAIN file.obj
                           /\ file.obj[IntToStr(y)] # EmptyDict}]

\* the record of the call c when it has ended with res; before and after
\* are the file before the call's first write and after its last
Done(i, c, res, before, after) ==
    [inst |-> i, op |-> c.op, dt |-> c.dt, years |-> c.years,
     fetched |-> c.fetched, io |-> c.io, res |-> res, after |-> FALSE,
     inmem |-> c.inmem, stored |-> c.stored,
     lapsed |-> {y \in c.held : LastFetchFailed(c, y)},
     replaced |->
         IF before.exists /\ before.valid /\ after.exists /\ after.valid
         THEN {y \in Years \ {c.fetched[k].year : k \in 1..Len(c.fetched)} :
                  /\ IntToStr(y) \in DOMAIN before.obj
                  /\ IntToStr(y) \in DOMAIN after.obj
                  /\ after.obj[IntToStr(y)] # before.obj[IntToStr(y)]}
         ELSE {}]

\* what the call returns once the year is in the _dict d
Answer(c, d) ==
    IF c.op = "date_info" THEN date_flags(d[c.dt.year], c.dt) ELSE ReturnNone

\* c with one more access to the file or to the network
Did(c, e) == [c EXCEPT !.io = Append(c.io, e)]

\* instance i goes on to the step pc with the call record c
Goes(i, pc, c) ==
    pending' = [pending EXCEPT ![i].pc = pc, ![i].call = c]

\* the call of instance i ends with res, without a write
Ends(i, c, res) ==
    /\ last' = Done(i, c, res, NoFile, NoFile)
    /\ pending' = [pending EXCEPT ![i].pc = "idle", ![i].call = NoCall,
                                  ![i].got = << >>, ![i].room = 0,
                                  ![i].seen = EmptyDict]

\* instance i changes the file to f: the other processes in the middle of a
\* write are marked
Marked(i, f) ==
    [j \in Instances |->
        IF j # i /\ f # file /\ Looked(j)
        THEN [pending[j] EXCEPT !.mixed = TRUE]
        ELSE pending[j]]

(* date_info(dt) is called on instance i; line 104: a year that is a key   *)
(* of the _dict is answered from it                                         *)
StartDateInfo(i, dt) ==
    /\ pending[i].pc = "idle" /\ pending[i].calls < Calls(i)
    /\ LET c == Made(i, "date_info", dt, << >>, <<dt.year>>)
       IN  IF dt.year \in DOMAIN dict[i]
           THEN /\ last' = Done(i, c, Answer(c, dict[i]), NoFile, NoFile)
                /\ pending' = [pending EXCEPT
                                   ![i] = Idle(pending[i].calls + 1)]
           ELSE /\ pending' = [pending EXCEPT
                                   ![i] = [Idle(pending[i].calls + 1) EXCEPT
                                              !.pc = "read_exists",
                                              !.call = c]]
                /\ UNCHANGED last
    /\ UNCHANGED <<dict, file, probe>>

(* pre_cache_json(years) is called on instance i *)
StartPreCache(i, years) ==
    /\ pending[i].pc = "idle" /\ pending[i].calls < Calls(i)
    /\ pending' = [pending EXCEPT
                       ![i] = [Idle(pending[i].calls + 1) EXCEPT
                                  !.pc = IF years = << >> THEN "write_exists"
                                         ELSE "reset",
                                  !.call = Made(i, "pre_cache_json", NoDate,
                                                years, years)]]
    /\ UNCHANGED <<dict, file, last, probe>>

(* The text json.dump(..., sort_keys=True) writes, with its separators     *)
(* ", " and ": ", as a sequence of one-character strings.                   *)

Quoted(s) == <<"\"">> \o s \o <<"\"">>

\* the texts ts with ", " between
RECURSIVE Joined(_)
Joined(ts) ==
    IF ts = << >> THEN << >>
    ELSE IF Len(ts) = 1 THEN ts[1]
    ELSE ts[1] \o <<",", " ">> \o Joined(Tail(ts))

\* "key": value
Item(key, text) == Quoted(key) \o <<":", " ">> \o text

\* a tuple of ints: [1, 2]
ListText(days) ==
    <<"[">> \o Joined([k \in 1..Len(days) |-> IntToStr(days[k])]) \o <<"]">>

\* one month: {"holidays": [...], "pre_holidays": [...], "weekends": [...]}
MonthText(md) ==
    <<"{">>
    \o Joined(<<Item(<<"h", "o", "l", "i", "d", "a", "y", "s">>,
                     ListText(md.holidays)),
                Item(<<"p", "r", "e", "_", "h", "o", "l", "i", "d", "a", "y", "s">>,
                     ListText(md.pre_holidays)),
                Item(<<"w", "e", "e", "k", "e", "n", "d", "s">>,
                     ListText(md.weekends))>>)
    \o <<"}">>

\* sort_keys: the keys in the order of their numbers (the keys are ints when
\* they are sorted; the months of a year carried over from the file are str
\* and sorted as such, which is the same order up to nine months)
RECURSIVE Sorted(_)
Sorted(ks) ==
    IF ks = {} THEN << >>
    ELSE LET k == CHOOSE k \in ks : \A x \in ks : int(k) <= int(x)
         IN  <<k>> \o Sorted(ks \ {k})

\* one year: {"1": {...}, "2": {...}}
YearText(jy) ==
    LET ks == Sorted(DOMAIN jy)
    IN  <<"{">>
        \o Joined([n \in 1..Len(ks) |-> Item(ks[n], MonthText(jy[ks[n]]))])
        \o <<"}">>

\* the whole object: {"2023": {...}, "2024": {...}}
Text(obj) ==
    LET ks == Sorted(DOMAIN obj)
    IN  <<"{">>
        \o Joined([n \in 1..Len(ks) |-> Item(ks[n], YearText(obj[ks[n]]))])
        \o <<"}">>

TextLen(obj) == Len(Text(obj))

\* the bytes of the file
Bytes(f) == (IF f.head THEN Text(f.obj) ELSE << >>) \o f.rest

Size(f) == Len(Bytes(f))

\* the buffered text of obj written at offset 0 of the file, at the flush:
\* what the file held beyond the text stays.  The texts here are shorter
\* than the buffer, so that a dump reaches the file in one write.
Overlay(f, obj) ==
    LET n == TextLen(obj)
        old == Bytes(f)
    IN  IF n >= Len(old) THEN JsonFile(obj)
        ELSE Extra(obj, SubSeq(old, n + 1, Len(old)))

\* f.truncate() at position n: the file is cut to n bytes, or extended to n
\* bytes with zero bytes
Cut(f, n) ==
    LET old == Bytes(f)
        new == [k \in 1..n |-> IF k <= Len(old) THEN old[k] ELSE ZeroByte]
        h   == IF f.head THEN TextLen(f.obj) ELSE 0
    IN  IF f.head /\ n >= h THEN Extra(f.obj, SubSeq(new, h + 1, n))
        ELSE Junk(new)

(* f.read(), as json.load calls it: the file's size is taken and a buffer *)
(* of one byte more is made (of 8192 bytes for a file without bytes); then *)
(* the file is read into the room left in the buffer until a read returns  *)
(* nothing.                                                                 *)
Buffer(f) == IF Size(f) > 0 THEN Size(f) + 1 ELSE 8192

\* a full buffer grows before the next read
Grown(room, n) ==
    IF n < room THEN room
    ELSE n + (IF 256 + n < 8192 THEN 8192 ELSE 256 + n)

\* one read: the bytes of the file f after the first n, as many as there is
\* room for
Chunk(f, n, room) ==
    LET to == IF Size(f) < room THEN Size(f) ELSE room
    IN  SubSeq(Bytes(f), n + 1, to)

\* the objects the file of the overlapping calls can hold: a year is not in
\* it, or is without months, or has the months of the one-table page
RaceObjects ==
    LET page == [m \in 1..Len(ShortPage) |-> MonthData(ShortPage[m])]
    IN  UNION {[ks -> {EmptyDict, DumpYear(page)}] :
                  ks \in SUBSET {str(y) : y \in Years}}

\* their texts, tabulated once
RaceTexts == [obj \in RaceObjects |-> Text(obj)]

\* json.load of the bytes read: the object whose text they are, white space
\* after it skipped, or none
json_load(bytes) ==
    LET objs == {obj \in RaceObjects :
                    LET n == Len(RaceTexts[obj])
                    IN  /\ n <= Len(bytes)
                        /\ SubSeq(bytes, 1, n) = RaceTexts[obj]
                        /\ Blank(SubSeq(bytes, n + 1, Len(bytes)))}
    IN  IF objs = {} THEN [valid |-> FALSE, obj |-> EmptyDict]
        ELSE [valid |-> TRUE, obj |-> CHOOSE obj \in objs : TRUE]

\* instance i has read the bytes more and reads on
Reads(i, more, room) ==
    pending' = [pending EXCEPT ![i].got = pending[i].got \o more,
                               ![i].room = room]

(* __read_cache_json, line 149: os.path.exists *)
ReadExists(i) ==
    /\ pending[i].pc = "read_exists"
    /\ Goes(i, IF file.exists THEN "read_open" ELSE "reset",
            Did(pending[i].call, "exists"))
    /\ UNCHANGED <<dict, file, last, probe>>

(* __read_cache_json, lines 152-153: open(name, 'r'), and the buffer of    *)
(* json.load's f.read()                                                     *)
ReadOpen(i) ==
    /\ pending[i].pc = "read_open"
    /\ pending' = [pending EXCEPT ![i].pc = "read_load",
                                  ![i].got = << >>,
                                  ![i].room = Buffer(file)]
    /\ UNCHANGED <<dict, file, last, probe>>

(* __read_cache_json, line 153: one read of json.load's f.read(); when it  *)
(* returns nothing, the bytes read are parsed, and lines 154-158: the year *)
(* is taken into the _dict when its entry is not falsy; then lines 109-120 *)
ReadLoad(i) ==
    /\ pending[i].pc = "read_load"
    /\ LET n    == Len(pending[i].got)
           room == Grown(pending[i].room, n)
           more == Chunk(file, n, room)
           data == json_load(pending[i].got)
           c    == Did(pending[i].call, "load")
           y    == c.dt.year
       IN  IF more # << >>
           THEN Reads(i, more, room) /\ UNCHANGED <<dict, last>>
           ELSE IF ~data.valid
           THEN Ends(i, c, Raise("JSONDecodeError")) /\ UNCHANGED dict
           ELSE IF Falsy(data.obj, str(y))
           THEN /\ pending' = [pending EXCEPT ![i].pc = "reset",
                                              ![i].call = c,
                                              ![i].got = << >>,
                                              ![i].room = 0]
                /\ UNCHANGED <<dict, last>>
           ELSE /\ dict' = [dict EXCEPT
                               ![i] = Put(dict[i], y, LoadYear(data.obj[str(y)]))]
                /\ Ends(i, c, Answer(c, dict'[i]))
    /\ UNCHANGED <<file, probe>>

(* __get_year_data for the next year to fetch, line 82: the year's entry   *)
(* is reset to {} before the page is asked for                              *)
ResetYear(i) ==
    /\ pending[i].pc = "reset"
    /\ dict' = [dict EXCEPT
                   ![i] = Put(dict[i], Head(pending[i].call.todo), EmptyDict)]
    /\ pending' = [pending EXCEPT ![i].pc = "fetch"]
    /\ UNCHANGED <<file, last, probe>>

(* __get_year_data, lines 83-91: urlopen and the read of the response,     *)
(* then the months, put into the entry that line 82 has reset; an          *)
(* exception of the read ends the call                                      *)
FetchYear(i, nets) ==
    /\ pending[i].pc = "fetch"
    /\ \E net \in nets :
           LET c0 == pending[i].call
               y  == Head(c0.todo)
               c  == [Did(c0, "urlopen") EXCEPT
                         !.todo = Tail(c0.todo),
                         !.fetched = Append(c0.fetched, Fetched(y, net))]
           IN  /\ dict' = [dict EXCEPT ![i] = get_year_data(dict[i], y, net)]
               /\ IF get_html(net).exc # ""
                  THEN Ends(i, c, Raise(get_html(net).exc))
                  ELSE /\ Goes(i, IF c.todo = << >> THEN "write_exists"
                                  ELSE "reset", c)
                       /\ UNCHANGED last
    /\ UNCHANGED <<file, probe>>

(* __write_cache_json, line 127: os.path.exists *)
WriteExists(i) ==
    /\ pending[i].pc = "write_exists"
    /\ Goes(i, IF file.exists THEN "write_begin" ELSE "write_open",
            Did(pending[i].call, "exists"))
    /\ UNCHANGED <<dict, file, last, probe>>

(* __write_cache_json, line 128: open(name, 'w') creates the file, or cuts *)
(* it to zero bytes                                                         *)
WriteOpen(i) ==
    /\ pending[i].pc = "write_open"
    /\ file' = EmptyFile
    /\ pending' = [Marked(i, EmptyFile) EXCEPT
                       ![i].pc = "write_dump", ![i].base = file]
    /\ UNCHANGED <<dict, last, probe>>

(* __write_cache_json, lines 129-130: json.dump and the close, which       *)
(* writes the text; the call returns                                        *)
WriteDump(i) ==
    /\ pending[i].pc = "write_dump"
    /\ \E f \in {Overlay(file, Dump(dict[i]))} :
           /\ file' = f
           /\ last' = Done(i, Did(pending[i].call, "dump"),
                           Answer(pending[i].call, dict[i]),
                           pending[i].base, f)
           /\ pending' = [Marked(i, f) EXCEPT
                              ![i].pc = "idle", ![i].call = NoCall]
    /\ UNCHANGED <<dict, probe>>

(* __write_cache_json, lines 132-133: open(name, 'r+'), and the buffer of *)
(* json.load's f.read()                                                     *)
WriteBegin(i) ==
    /\ pending[i].pc = "write_begin"
    /\ pending' = [pending EXCEPT ![i].pc = "write_load",
                                  ![i].got = << >>,
                                  ![i].room = Buffer(file)]
    /\ UNCHANGED <<dict, file, last, probe>>

(* __write_cache_json, line 133: one read of json.load's f.read(); when it *)
(* returns nothing, the bytes read are parsed                               *)
WriteLoad(i) ==
    /\ pending[i].pc = "write_load"
    /\ LET n    == Len(pending[i].got)
           room == Grown(pending[i].room, n)
           more == Chunk(file, n, room)
           data == json_load(pending[i].got)
           c    == Did(pending[i].call, "load")
       IN  IF more # << >>
           THEN Reads(i, more, room) /\ UNCHANGED last
           ELSE IF ~data.valid
           THEN Ends(i, c, Raise("JSONDecodeError"))
           ELSE /\ pending' = [pending EXCEPT ![i].pc = "write_flush",
                                              ![i].call = c,
                                              ![i].got = << >>,
                                              ![i].room = 0,
                                              ![i].seen = data.obj]
                /\ UNCHANGED last
    /\ UNCHANGED <<dict, file, probe>>

(* __write_cache_json, lines 134-137: seek(0), update, json.dump, and the  *)
(* flush with which f.truncate() begins: the new text is written over the  *)
(* old                                                                      *)
WriteFlush(i) ==
    /\ pending[i].pc = "write_flush"
    /\ \E f \in {Overlay(file, Merge(pending[i].seen, dict[i]))} :
           /\ file' = f
           /\ pending' = [Marked(i, f) EXCEPT
                              ![i].pc = "write_truncate",
                              ![i].call = Did(pending[i].call, "dump"),
                              ![i].base = file]
    /\ UNCHANGED <<dict, last, probe>>

(* __write_cache_json, line 137: f.truncate() cuts the file at the end of  *)
(* the text written; the call returns                                       *)
WriteTruncate(i) ==
    /\ pending[i].pc = "write_truncate"
    /\ \E f \in {Cut(file, TextLen(Merge(pending[i].seen, dict[i])))} :
           /\ file' = f
           /\ last' = Done(i, pending[i].call,
                           Answer(pending[i].call, dict[i]),
                           pending[i].base, f)
           /\ pending' = [Marked(i, f) EXCEPT
                              ![i].pc = "idle", ![i].call = NoCall,
                              ![i].seen = EmptyDict]
    /\ UNCHANGED <<dict, probe>>

\* the overlapping calls ask for the first of January, and a fetch fails or
\* yields the one-table page; instance p makes the longer lists, and a
\* process makes a new instance between two of its calls
RaceDates == {Date(y, 1, 1) : y \in Years}
RaceNets == {NetError, NetBroken("ConnectionResetError"), NetOk(Body(ShortPage))}

NextRace ==
    \/ \E i \in Instances : pending[i].pc = "idle" /\ New(i)
    \/ \E i \in Instances, dt \in RaceDates : StartDateInfo(i, dt)
    \/ \E i \in Instances :
           \E years \in YearLists(IF i = "p" THEN MaxYears ELSE MaxYears - 1) :
               StartPreCache(i, years)
    \/ \E i \in Instances : ReadExists(i)
    \/ \E i \in Instances : ReadOpen(i)
    \/ \E i \in Instances : ReadLoad(i)
    \/ \E i \in Instances : ResetYear(i)
    \/ \E i \in Instances : FetchYear(i, RaceNets)
    \/ \E i \in Instances : WriteExists(i)
    \/ \E i \in Instances : WriteOpen(i)
    \/ \E i \in Instances : WriteDump(i)
    \/ \E i \in Instances : WriteBegin(i)
    \/ \E i \in Instances : WriteLoad(i)
    \/ \E i \in Instances : WriteFlush(i)
    \/ \E i \in Instances : WriteTruncate(i)

SpecRace == Init /\ [][NextRace]_vars

----------------------------------------------------------------------------
(* Vocabulary of the properties *)

\* the YearData the last caller's instance holds for the queried year
Resolved == dict[last.inst][last.dt.year]

\* the last call was date_info and its year is in the instance's memory
Queried == last.op = "date_info" /\ last.dt.year \in DOMAIN dict[last.inst]

\* the day sets of the queried month
PreHolidays == Range(Resolved[last.dt.month].pre_holidays)
Holidays == Range(Resolved[last.dt.month].holidays)
Weekends == Range(Resolved[last.dt.month].weekends)

Flags(r) == <<r.is_work, r.is_short, r.is_holiday, r.is_weekend>>

Returned == last.op = "date_info" /\ last.res.kind = "DateInfo"

----------------------------------------------------------------------------
(* C1: for a day of a month that is present in the resolved YearData,      *)
(* date_info returns work+short (nothing else) when the day is a           *)
(* pre-holiday, whatever else it is; else holiday+weekend when it is a     *)
(* holiday; else weekend alone when it is a weekend; else work alone.       *)
C1_Precedence ==
    (Queried /\ last.dt.month \in DOMAIN Resolved) =>
        /\ last.res.kind = "DateInfo"
        /\ last.dt.day \in PreHolidays =>
               Flags(last.res) = <<TRUE, TRUE, FALSE, FALSE>>
        /\ (last.dt.day \in Holidays \ PreHolidays) =>
               Flags(last.res) = <<FALSE, FALSE, TRUE, TRUE>>
        /\ (last.dt.day \in Weekends \ (Holidays \cup PreHolidays)) =>
               Flags(last.res) = <<FALSE, FALSE, FALSE, TRUE>>
        /\ (last.dt.day \notin (Weekends \cup Holidays \cup PreHolidays)) =>
               Flags(last.res) = <<TRUE, FALSE, FALSE, FALSE>>

\* a pre-holiday that is also listed as a holiday and as a weekend was queried
C1_Witness ==
    /\ Queried /\ last.dt.month \in DOMAIN Resolved
    /\ last.dt.day \in (PreHolidays \cap Holidays) \cap Weekends
    /\ last.res.is_short

(* C2: every DateInfo returned has is_holiday => is_weekend, never         *)
(* is_holiday with is_work, is_short => is_work, and exactly one of        *)
(* is_work and is_weekend.                                                   *)
C2_FlagsConsistent ==
    Returned =>
        /\ last.res.is_holiday => last.res.is_weekend
        /\ ~(last.res.is_holiday /\ last.res.is_work)
        /\ last.res.is_short => last.res.is_work
        /\ last.res.is_work # last.res.is_weekend

\* a holiday was returned for a day that a fresh instance read from the file
C2_Witness ==
    /\ Returned /\ last.res.is_holiday
    /\ last.io = <<"exists", "load">>

(* C7: date_info returns a DateInfo only for a month that is present in    *)
(* the resolved YearData; for an absent month the call ends in KeyError,   *)
(* however the YearData came about.                                         *)
C7_MissingMonthFails ==
    /\ Returned => (Queried /\ last.dt.month \in DOMAIN Resolved)
    /\ (Queried /\ last.dt.month \notin DOMAIN Resolved) => last.res.kind = "KeyError"

----------------------------------------------------------------------------
(* Vocabulary of the properties about the file *)

\* the call wrote the file
Wrote(c) == "dump" \in Range(c.io)

Count(io, e) == Cardinality({k \in 1..Len(io) : io[k] = e})

\* the years that have an entry in the file
PersistedYears(f) ==
    IF f.exists /\ f.valid THEN {StrToInt(ks) : ks \in DOMAIN f.obj} ELSE {}

Entry(f, y) == f.obj[IntToStr(y)]

\* two month records hold the same three day sets
SameMonth(a, b) ==
    /\ Range(a.pre_holidays) = Range(b.pre_holidays)
    /\ Range(a.weekends) = Range(b.weekends)
    /\ Range(a.holidays) = Range(b.holidays)

\* the year's entry in the file is, month for month and set for set, yd
StoredEq(f, y, yd) ==
    /\ y \in PersistedYears(f)
    /\ {StrToInt(ks) : ks \in DOMAIN Entry(f, y)} = DOMAIN yd
    /\ \A m \in DOMAIN yd : SameMonth(Entry(f, y)[IntToStr(m)], yd[m])

\* two in-memory YearData are equal month for month and set for set
SameYear(a, b) ==
    /\ DOMAIN a = DOMAIN b
    /\ \A m \in DOMAIN a : SameMonth(a[m], b[m])

\* what a fresh instance (an empty _dict) gets from the file for year y
FreshGet(y) == read_cache_json(EmptyDict, file, y)

----------------------------------------------------------------------------
(* C3: a date_info call that repeats, on the same instance and with no     *)
(* pre_cache_json in between, an earlier call for the same date has the    *)
(* same outcome (the same DateInfo, or the same exception), and the two    *)
(* calls together fetch at most once.                                       *)
C3_Idempotent ==
    (last.op = "date_info" /\ last.after /\ last.dt = probe.dt) =>
        /\ last.res = probe.res
        /\ Len(probe.fetched) + Len(last.fetched) <= 1

(* C4: after an instance has written the file, a fresh instance's read of  *)
(* any year the writer holds is a hit and yields the writer's YearData,    *)
(* equal month for month and set for set -- the empty YearData included.   *)
C4_RoundTrip ==
    (Wrote(last) /\ last.res.kind # "JSONDecodeError") =>
        \A y \in DOMAIN dict[last.inst] :
            /\ FreshGet(y).hit
            /\ SameYear(FreshGet(y).dict[y], dict[last.inst][y])

(* C5: when instance p holds year A alone and A's data is in the file, and *)
(* then another instance q, holding year B alone, writes the file, the     *)
(* file holds p's data for A and q's data for B.                            *)
C5_Merge ==
    [][\A p, q \in Instances : \A A, B \in Years :
        ( /\ p # q /\ A # B
          /\ DOMAIN dict[p] = {A} /\ StoredEq(file, A, dict[p][A])
          /\ last'.inst = q /\ Wrote(last') /\ DOMAIN dict'[q] = {B} )
        => /\ StoredEq(file', A, dict[p][A])
           /\ StoredEq(file', B, dict'[q][B])]_vars

\* q has just fetched and written B, which was not in the file; p holds A
C5_Witness ==
    \E p, q \in Instances : \E A, B \in Years :
        /\ p # q /\ A # B
        /\ DOMAIN dict[p] = {A} /\ DOMAIN dict[q] = {B}
        /\ dict[p][A] # EmptyDict /\ dict[q][B] # EmptyDict
        /\ last.inst = q /\ last.op = "date_info" /\ Wrote(last) /\ ~last.stored
        /\ StoredEq(file, A, dict[p][A]) /\ StoredEq(file, B, dict[q][B])

(* C6: a write of the file by an instance leaves, for every year in the    *)
(* instance's memory, exactly the instance's YearData in the file, keeps   *)
(* every other year's entry as it was, and drops or adds no other year.    *)
C6_ReadMergeWrite ==
    [][Wrote(last') =>
        /\ \A y \in DOMAIN dict'[last'.inst] :
               StoredEq(file', y, dict'[last'.inst][y])
        /\ \A y \in PersistedYears(file) \ DOMAIN dict'[last'.inst] :
               /\ y \in PersistedYears(file')
               /\ Entry(file', y) = Entry(file, y)
        /\ PersistedYears(file') =
               PersistedYears(file) \cup DOMAIN dict'[last'.inst]]_vars

\* the writer holds one year and the file keeps another, non-empty one
C6_Witness ==
    /\ Wrote(last)
    /\ \E y \in PersistedYears(file) \ DOMAIN dict[last.inst] :
           Entry(file, y) # EmptyDict
    /\ \E y \in DOMAIN dict[last.inst] : dict[last.inst][y] # EmptyDict

(* C8: a date_info call whose fetch fails does not end in the transport    *)
(* error: the year gets the empty YearData and the call ends in KeyError;  *)
(* and so does every later date_info call of the instance for that year,   *)
(* whatever the month, until the next pre_cache_json.                       *)
C8_FailedFetch ==
    /\ ( /\ last.op = "date_info" /\ last.fetched # << >>
         /\ FetchFailed(last.fetched[1]) ) =>
           /\ Queried /\ Resolved = EmptyDict
           /\ last.res.kind = "KeyError"
    /\ ( /\ last.op = "date_info" /\ last.after
         /\ probe.fetched # << >> /\ FetchFailed(probe.fetched[1])
         /\ last.dt.year = probe.dt.year ) =>
           /\ last.res.kind = "KeyError"
           /\ last.fetched = << >>

(* C9: a date_info call for a year that is not in the instance's memory    *)
(* but has an entry in the file fetches nothing, writes nothing, and       *)
(* leaves the file's YearData in memory; a call for a year in memory does  *)
(* no file access and no fetch.                                             *)
C9_Promotion ==
    /\ (last.op = "date_info" /\ ~last.inmem /\ last.stored) =>
           /\ last.fetched = << >>
           /\ ~Wrote(last)
           /\ Queried /\ StoredEq(file, last.dt.year, Resolved)
    /\ (last.op = "date_info" /\ last.inmem) =>
           (last.io = << >> /\ last.fetched = << >>)

(* C10: pre_cache_json fetches once for each entry of its argument list,   *)
(* in order, whether or not the year is in memory or in the file, then     *)
(* writes the file once; afterwards the instance's memory is what it was   *)
(* plus the listed years, and the file holds the instance's YearData of    *)
(* every year in its memory.                                                *)
C10_PreCache ==
    [][last'.op = "pre_cache_json" =>
        /\ [k \in 1..Len(last'.fetched) |-> last'.fetched[k].year] = last'.years
        /\ last'.io = [k \in 1..Len(last'.years) |-> "urlopen"]
                          \o SubSeq(last'.io, Len(last'.years) + 1, Len(last'.io))
        /\ Count(last'.io, "urlopen") = Len(last'.years)
        /\ Count(last'.io, "dump") = 1 /\ last'.io[Len(last'.io)] = "dump"
        /\ DOMAIN dict'[last'.inst] = DOMAIN dict[last'.inst] \cup Range(last'.years)
        /\ \A y \in DOMAIN dict[last'.inst] \ Range(last'.years) :
               dict'[last'.inst][y] = dict[last'.inst][y]
        /\ \A y \in DOMAIN dict'[last'.inst] :
               StoredEq(file', y, dict'[last'.inst][y])]_vars

----------------------------------------------------------------------------
\* the years the call fetched
FetchedYears(c) == {c.fetched[k].year : k \in 1..Len(c.fetched)}

\* the step is a call of the instance that is not its construction
CallBy(i) == last'.inst = i /\ last'.op \in {"date_info", "pre_cache_json"}

(* C11, as stated: once an instance holds a YearData for a year, no later  *)
(* date_info or pre_cache_json of that instance changes or removes it, and *)
(* the instance never fetches that year again.                              *)
C11_NeverInvalidated ==
    [][\A i \in Instances : \A y \in DOMAIN dict[i] :
        CallBy(i) =>
            /\ y \in DOMAIN dict'[i] /\ dict'[i][y] = dict[i][y]
            /\ y \notin FetchedYears(last')]_vars

(* C11, amended: once an instance holds a YearData for a year, no later    *)
(* date_info, and no later pre_cache_json whose argument list does not     *)
(* name the year, changes or removes it or fetches the year again; a       *)
(* pre_cache_json that names the year fetches it again and replaces it,    *)
(* unless a fetch of the call raises and ends the call.                    *)
C11_InvalidatedOnlyByPreCache ==
    [][\A i \in Instances : \A y \in DOMAIN dict[i] :
        CallBy(i) =>
            /\ y \in DOMAIN dict'[i]
            /\ (last'.op = "date_info" \/ y \notin Range(last'.years)) =>
                   (dict'[i][y] = dict[i][y] /\ y \notin FetchedYears(last'))
            /\ ( /\ last'.op = "pre_cache_json" /\ y \in Range(last'.years)
                 /\ ~Broke(last') ) =>
                   y \in FetchedYears(last')]_vars

\* a date_info call fetched one year while the instance held another,
\* non-empty one
C11_Witness ==
    /\ last.op = "date_info" /\ Len(last.fetched) = 1
    /\ \E y \in DOMAIN dict[last.inst] \ {last.dt.year} :
           dict[last.inst][y] # EmptyDict

----------------------------------------------------------------------------
\* the call reached __write_cache_json: its os.path.exists is the first
\* access to the file of pre_cache_json and the second of date_info
Persisting(c) ==
    \E k \in 1..Len(c.io) :
        /\ c.io[k] = "exists"
        /\ c.op = "pre_cache_json" \/ k > 1

(* C12, as stated: a persist that finds the store absent, or existing but  *)
(* of zero bytes, succeeds, and the store afterwards contains exactly the  *)
(* years of the instance's _dict, with their YearData.                      *)
C12_EmptyStore ==
    [][(file \in {NoFile, EmptyFile} /\ Persisting(last')) =>
        /\ last'.res.kind # "JSONDecodeError"
        /\ file'.exists /\ file'.valid
        /\ PersistedYears(file') = DOMAIN dict'[last'.inst]
        /\ \A y \in DOMAIN dict'[last'.inst] :
               StoredEq(file', y, dict'[last'.inst][y])]_vars

\* the same for the absent store and the store holding the empty object
C12_AbsentStore ==
    [][(file \in {NoFile, JsonFile(EmptyDict)} /\ Persisting(last')) =>
        /\ last'.res.kind # "JSONDecodeError"
        /\ file'.exists /\ file'.valid
        /\ PersistedYears(file') = DOMAIN dict'[last'.inst]
        /\ \A y \in DOMAIN dict'[last'.inst] :
               StoredEq(file', y, dict'[last'.inst][y])]_vars

----------------------------------------------------------------------------
\* the file exists and json.load rejects its text
Unparsable(f) == f.exists /\ ~f.valid

\* the calls that open the cache file: pre_cache_json, and date_info when
\* the year is not a key of the instance's _dict
AccessesStore(c) ==
    \/ c.op = "pre_cache_json"
    \/ c.op = "date_info" /\ ~c.inmem

(* C13: when the cache file's text is not JSON, every date_info for a year *)
(* not in memory and every pre_cache_json ends in JSONDecodeError and      *)
(* returns no DateInfo, nothing is dumped, the file is left as it was, and *)
(* date_info neither fetches nor changes the instance's _dict.             *)
C13_ParseErrorPropagates ==
    [][(Unparsable(file) /\ AccessesStore(last')) =>
        /\ last'.res.kind = "JSONDecodeError"
        /\ ~Wrote(last')
        /\ file' = file
        /\ last'.op = "date_info" =>
               (last'.fetched = << >> /\ dict' = dict)]_vars

----------------------------------------------------------------------------
\* the step is the last write of instance i's persist
Dumps(i) ==
    /\ pending[i].pc \in {"write_dump", "write_truncate"}
    /\ pending'[i].pc = "idle"

\* another process wrote the file between the look at the file of instance
\* i's persist (os.path.exists at line 127, or the first bytes that json.load
\* read at line 133) and the end of its write
Interleaved(i) == pending[i].mixed

\* the persist of instance i that ends with the step has removed year y from
\* the file, or changed its entry: the file before the persist's first write
\* against the file after its last
Removed(i, y) ==
    /\ y \in PersistedYears(pending[i].base)
    /\ y \notin PersistedYears(file')
Replaced(i, y) ==
    /\ y \in PersistedYears(pending[i].base)
    /\ y \in PersistedYears(file')
    /\ Entry(file', y) # Entry(pending[i].base, y)

(* C14, as stated (second half): a persisted year is removed from the      *)
(* file, or its entry replaced by a call that did not fetch the year, only *)
(* by a persist that another process's write interleaved.                  *)
C14_OnlyByInterleaving ==
    [][\A i \in Instances : \A y \in Years :
        (Dumps(i) /\ (Removed(i, y) \/ Replaced(i, y))) =>
            Interleaved(i) \/ y \in FetchedYears(pending[i].call)]_vars

(* C14, amended: a persist that no write of another process interleaves    *)
(* leaves the file as JSON text and removes no year from it; a persisted   *)
(* year is removed, or the file left unparsable, only by a persist that    *)
(* another process's write interleaved (the reachable lost update is      *)
(* C14_Witness); a year's entry is replaced only by such a persist or by   *)
(* the persist of an instance that holds the year in its _dict, fetched in *)
(* this call or before it.                                                  *)
C14_LostOnlyByInterleaving ==
    [][\A i \in Instances :
        Dumps(i) =>
            /\ ~Interleaved(i) => (file'.exists /\ file'.valid)
            /\ \A y \in Years :
                   /\ Removed(i, y) => Interleaved(i)
                   /\ Replaced(i, y) =>
                          (Interleaved(i) \/ y \in DOMAIN dict[i])]_vars

\* both processes looked at the file before either wrote it; the persist
\* that ended last was interleaved by the other's write, and a year the
\* other holds and had written is gone from the file
C14_Witness ==
    \E i \in Instances : \E j \in Instances \ {i} :
        /\ last.inst = i /\ Wrote(last)
        /\ pending[i].pc = "idle" /\ pending[i].mixed
        /\ pending[j].pc = "idle"
        /\ file.exists /\ file.valid
        /\ \E y \in PersistedYears(pending[i].base) :
               /\ y \in DOMAIN dict[j]
               /\ y \notin PersistedYears(file)

----------------------------------------------------------------------------
\* the last call fetched a page for one year, once
FetchedPage ==
    /\ last.op \in {"date_info", "pre_cache_json"}
    /\ Len(last.fetched) = 1 /\ ~FetchFailed(last.fetched[1])

(* C15: when the fetched page yields k tables, the YearData built has      *)
(* exactly the month keys 1..k and holds under month N the three day lists *)
(* of the N-th table; the build and the persist do not fail whatever k is, *)
(* and the months k+1..12 are keys neither of the YearData nor of the      *)
(* persisted entry.                                                         *)
C15_PositionalMonths ==
    FetchedPage =>
        LET t  == last.fetched[1].tables
            y  == last.fetched[1].year
            yd == dict[last.inst][y]
        IN  /\ DOMAIN yd = 1..Len(t)
            /\ \A n \in 1..Len(t) :
                   /\ yd[n].pre_holidays = DaysOf(SelectSeq(t[n], pre_holiday_pattern))
                   /\ yd[n].weekends = DaysOf(SelectSeq(t[n], weekend_pattern))
                   /\ yd[n].holidays = DaysOf(SelectSeq(t[n], holiday_pattern))
            /\ last.res.kind \in {"DateInfo", "KeyError", "None"}
            /\ Wrote(last)
            /\ DOMAIN Entry(file, y) = {IntToStr(n) : n \in 1..Len(t)}
            /\ \A m \in Months \ (1..Len(t)) :
                   m \notin DOMAIN yd /\ IntToStr(m) \notin DOMAIN Entry(file, y)

\* a page of three tables that starts with the full page's second table was
\* fetched and persisted, and date_info for December ended in KeyError
C15_Witness ==
    /\ FetchedPage
    /\ last.fetched[1].tables = SubSeq(FullPage, 2, 4)
    /\ last.op = "date_info" /\ last.dt.month = 12
    /\ last.res.kind = "KeyError"
    /\ Wrote(last)

----------------------------------------------------------------------------
\* pre_cache_json returned after its fetch for year y failed, while the
\* instance's _dict or the file held a YearData with months for y
FailedRefresh(y) ==
    /\ last.op = "pre_cache_json" /\ y \in last.lapsed

(* C16: when the fetch for a year fails during pre_cache_json while the    *)
(* instance's _dict or the file holds a non-empty YearData for it, the     *)
(* year's entry is afterwards the empty YearData in the _dict and in the   *)
(* file, and date_info for that year on that instance ends in KeyError     *)
(* without reading the file or fetching.                                   *)
C16_FailedRefreshErases ==
    \A y \in Years :
        FailedRefresh(y) =>
            /\ y \in DOMAIN dict[last.inst] /\ dict[last.inst][y] = EmptyDict
            /\ y \in PersistedYears(file) /\ Entry(file, y) = EmptyDict
            /\ \A dt \in Dates : \A net \in Nets :
                   dt.year = y =>
                       LET r == date_info(dict[last.inst], file, dt, net)
                       IN  /\ r.res.kind = "KeyError"
                           /\ r.fetched = << >> /\ r.io = << >>

----------------------------------------------------------------------------
(* C17: date_info for a year whose entry in the instance's _dict is the    *)
(* empty YearData treats the year as present: it reads no file and fetches *)
(* nothing.  date_info for a year that is not in the instance's _dict and  *)
(* whose entry in the file is the empty YearData treats it as absent: it   *)
(* fetches the year and writes the file.                                   *)
C17_PresenceJudgedDifferently ==
    [][\A i \in Instances :
        (last'.inst = i /\ last'.op = "date_info") =>
            LET y == last'.dt.year
            IN  /\ (y \in DOMAIN dict[i] /\ dict[i][y] = EmptyDict) =>
                       /\ last'.io = << >> /\ last'.fetched = << >>
                       /\ dict' = dict /\ file' = file
                /\ (y \notin DOMAIN dict[i] /\ StoredEq(file, y, EmptyDict)) =>
                       /\ Len(last'.fetched) = 1 /\ last'.fetched[1].year = y
                       /\ Count(last'.io, "urlopen") = 1
                       /\ Wrote(last')]_vars

----------------------------------------------------------------------------
\* the _dict of instance q holds, for year y, a YearData other than the one
\* in the file: the file's entry was written after q obtained its own
Stale(q, y) ==
    /\ y \in DOMAIN dict[q]
    /\ y \in PersistedYears(file)
    /\ Entry(file, y) # DumpYear(dict[q][y])

(* C18: with calls that do not overlap, a call of instance q that writes   *)
(* the file while q's _dict holds for year y a YearData older than the     *)
(* file's, and that does not itself fetch y, replaces the file's entry for *)
(* y by q's older YearData; date_info for another year is such a call.     *)
C18_StaleOverwrite ==
    [][\A q \in Instances : \A y \in Years :
        (CallBy(q) /\ Wrote(last') /\ Stale(q, y) /\ y \notin FetchedYears(last')) =>
            /\ dict'[q][y] = dict[q][y]
            /\ StoredEq(file', y, dict[q][y])
            /\ Entry(file', y) # Entry(file, y)
            /\ y \in last'.replaced]_vars

\* date_info for one year has put back the instance's one-table YearData of
\* the other year, over the twelve tables another instance had persisted and
\* still holds
C18_Witness ==
    /\ last.op = "date_info" /\ Wrote(last)
    /\ \E y \in last.replaced : \E p \in Instances \ {last.inst} :
           /\ y # last.dt.year
           /\ y \in DOMAIN dict[p]
           /\ Len(dict[p][y]) = Len(FullPage)
           /\ Len(dict[last.inst][y]) = Len(ShortPage)
           /\ StoredEq(file, y, dict[last.inst][y])

----------------------------------------------------------------------------
(* C19: with calls that do not overlap and a file that parses, no call of  *)
(* any instance, and no restart, removes a year from the file.             *)
C19_YearsNeverShrink ==
    [][(file.exists /\ file.valid) =>
        /\ file'.exists /\ file'.valid
        /\ PersistedYears(file) \subseteq PersistedYears(file')]_vars

\* both years are in the file although no running instance holds either
C19_Witness ==
    /\ PersistedYears(file) = Years
    /\ \A i \in Instances : dict[i] = EmptyDict
    /\ last.op = "__init__"

----------------------------------------------------------------------------
(* C20: date_info for a year that is a key of the instance's _dict returns *)
(* a DateInfo or ends in the KeyError of the month lookup, does no fetch,  *)
(* no read and no write of the file, and leaves every _dict and the file   *)
(* as they were.                                                            *)
C20_MemoryHitChangesNothing ==
    [][(last'.op = "date_info" /\ last'.inmem) =>
        /\ last'.res.kind \in {"DateInfo", "KeyError"}
        /\ last'.fetched = << >>
        /\ last'.io = << >>
        /\ dict' = dict
        /\ file' = file]_vars

\* the year reached memory through a pre_cache_json that stopped at the
\* malformed file; date_info for its missing December ends in KeyError and
\* has not opened the file
C20_Witness ==
    /\ last.op = "date_info" /\ last.inmem
    /\ last.res.kind = "KeyError"
    /\ Resolved # EmptyDict
    /\ file = MalformedFile

====
